---- MODULE Spec2Model ----
(***************************************************************************)
(* Model of src/app.py, the Streamlit "Marathon Training Coach" script.    *)
(*                                                                         *)
(* The script is executed top to bottom on every widget interaction (a     *)
(* "rerun").  One rerun is modelled as a walk of pc through the script:    *)
(* session-state initialisation, the sidebar ingestion block, then the     *)
(* three tabs.  Every call of an external service (TextLoader, the text    *)
(* splitter, OpenAIEmbeddings/FAISS, the chain constructor, the coach) can *)
(* return or raise; an exception ends the rerun where it is raised.        *)
(* Script runs of one session are serialised, and sessions follow one      *)
(* another (NewSession): st.session_state and the widgets belong to the    *)
(* session, the working directory, os.environ and the embedding service    *)
(* to the process.                                                         *)
(***************************************************************************)
EXTENDS Integers, Sequences, FiniteSets, TLC

\* ---------------------------------------------------------------- bounds
NumDocs == 2        \* distinct uploaded byte contents
NumAnswers == 1     \* distinct answers the language model may return
MaxAsks == 2        \* coach requests recorded per session

\* ---------------------------------------------------------------- values
NoDoc == 0          \* Python None / no file uploaded / no file on disk
FAILED == 0         \* the coach call raised instead of returning an answer
Docs == 1..NumDocs
Answers == 1..NumAnswers
Keys == {"", "sk"}
QuestionTexts == {"", "q"}
NoHash == <<>>

\* hashlib.md5(file_bytes).hexdigest(): a digest value, distinct from the
\* bytes it is computed from, and distinct for the distinct documents here.
MD5(d) == <<"md5", d>>

VARIABLES
    \* st.session_state
    chat_history, coach, embeddings_done, training_plan, training_principles,
    \* widgets of the session
    openai_api_key, uploaded_file, question, clicked,
    \* the running script: position, locals, what it rendered, how it ended
    pc, file_hash, documents, splits, vectorstore, st_error, run_status,
    \* the process and the outside world
    temp_file, env_key, index_built, llm_requests

vars == <<chat_history, coach, embeddings_done, training_plan, training_principles,
          openai_api_key, uploaded_file, question, clicked,
          pc, file_hash, documents, splits, vectorstore, st_error, run_status,
          temp_file, env_key, index_built, llm_requests>>

state_vars == <<chat_history, coach, embeddings_done, training_plan, training_principles>>
widget_vars == <<openai_api_key, uploaded_file, question, clicked>>
local_vars == <<documents, splits, vectorstore>>
world_vars == <<temp_file, env_key, index_built>>

\* ------------------------------------------------------- code conditions
\* line 39: if uploaded_file and openai_api_key
SidebarGuard_NoKey(file, key) == file # NoDoc
SidebarGuard(file, key) == file # NoDoc /\ key # ""

\* line 51: if not st.session_state.embeddings_done
NeedsProcessing_Always(done) == TRUE
NeedsProcessing(done) == ~done

\* lines 67-71: the assignment to st.session_state.coach happens only after
\* ConversationalRetrievalChain.from_llm has returned; when it raises, coach
\* keeps its old value.
CoachAfterChainFailure_Partial(old, vs) == vs
CoachAfterChainFailure(old, vs) == old

\* lines 209-210, 218-219 (and 134-136, 169-172): what a coach call leaves in
\* st.session_state.chat_history.  The script only reads the list.
HistoryAfterFailure_PartialTurn(hist, q) == Append(hist, <<q, FAILED>>)
HistoryAfterFailure(hist, q) == hist
HistoryAfterAnswer(hist, q, a) == hist

\* lines 135, 170: plan generation passes a literal empty list
PlanHistoryArg(hist) == <<>>
\* lines 209, 218: run logging and coach chat pass st.session_state.chat_history
TabHistoryArg(hist) == hist

\* One request sent to the coach: the dict passed and the outcome.
Request(q, hist, a) == [question |-> q, chat_history |-> hist, answer |-> a]

\* (question, answer) pairs of the requests that were answered, in call order
RECURSIVE Turns(_)
Turns(log) ==
    IF log = <<>> THEN <<>>
    ELSE LET rest == Turns(SubSeq(log, 1, Len(log) - 1))
             last == log[Len(log)]
         IN IF last.answer = FAILED THEN rest
            ELSE Append(rest, <<last.question, last.answer>>)

\* ------------------------------------------------------------------ Init
\* lines 21-31 on an empty st.session_state, widgets at their defaults
Init ==
    /\ chat_history = <<>>
    /\ coach = NoDoc
    /\ embeddings_done = FALSE
    /\ training_plan = NoDoc
    /\ training_principles = NoDoc
    /\ openai_api_key = ""
    /\ uploaded_file = NoDoc
    /\ question = ""
    /\ clicked = "none"
    /\ pc = "idle"
    /\ file_hash = NoHash
    /\ documents = NoDoc
    /\ splits = NoDoc
    /\ vectorstore = NoDoc
    /\ st_error = FALSE
    /\ run_status = "none"
    /\ temp_file = NoDoc
    /\ env_key = ""
    /\ index_built = {}
    /\ llm_requests = <<>>

\* ------------------------------------------------- interactions (reruns)
\* Any widget interaction reruns the script from line 1.  Lines 22-31 leave
\* an existing session state alone.
StartRerun ==
    /\ pc = "idle"
    /\ pc' = "sidebar"
    /\ st_error' = FALSE
    /\ run_status' = "running"
    /\ UNCHANGED <<state_vars, file_hash, local_vars, world_vars, llm_requests>>

\* line 36
SetApiKey ==
    /\ StartRerun
    /\ \E k \in Keys : k # openai_api_key /\ openai_api_key' = k
    /\ clicked' = "none"
    /\ UNCHANGED <<uploaded_file, question>>

\* line 37
UploadFile ==
    /\ StartRerun
    /\ \E f \in Docs \cup {NoDoc} : f # uploaded_file /\ uploaded_file' = f
    /\ clicked' = "none"
    /\ UNCHANGED <<openai_api_key, question>>

\* line 215
TypeQuestion ==
    /\ StartRerun
    /\ \E q \in QuestionTexts : q # question /\ question' = q
    /\ clicked' = "none"
    /\ UNCHANGED <<openai_api_key, uploaded_file>>

\* lines 88-120, 190-194: the form widgets only feed the prompt texts
EditForm ==
    /\ StartRerun
    /\ clicked' = "none"
    /\ UNCHANGED <<openai_api_key, uploaded_file, question>>

\* line 122
ClickGeneratePlan ==
    /\ StartRerun
    /\ clicked' = "plan"
    /\ UNCHANGED <<openai_api_key, uploaded_file, question>>

\* line 196
ClickLogRun ==
    /\ StartRerun
    /\ clicked' = "log"
    /\ UNCHANGED <<openai_api_key, uploaded_file, question>>

\* A new browser session: empty st.session_state, default widgets, and the
\* first script run (lines 21-31 set the defaults, nothing else applies).
NewSession ==
    /\ pc = "idle"
    /\ chat_history' = <<>>
    /\ coach' = NoDoc
    /\ embeddings_done' = FALSE
    /\ training_plan' = NoDoc
    /\ training_principles' = NoDoc
    /\ openai_api_key' = ""
    /\ uploaded_file' = NoDoc
    /\ question' = ""
    /\ clicked' = "none"
    /\ file_hash' = NoHash
    /\ st_error' = FALSE
    /\ run_status' = "new_session"
    /\ llm_requests' = <<>>
    /\ UNCHANGED <<pc, local_vars, world_vars>>

\* --------------------------------------------------- sidebar, lines 34-74
\* An exception ends the script run; its locals are gone.
Raise(status) ==
    /\ pc' = "idle"
    /\ run_status' = status
    /\ documents' = NoDoc
    /\ splits' = NoDoc
    /\ vectorstore' = NoDoc

\* lines 39-51: hash, temporary file, environment, then the gate
SidebarSetup ==
    /\ pc = "sidebar"
    /\ SidebarGuard(uploaded_file, openai_api_key)
    /\ file_hash' = MD5(uploaded_file)
    /\ temp_file' = uploaded_file
    /\ env_key' = openai_api_key
    /\ pc' = IF NeedsProcessing(embeddings_done) THEN "load" ELSE "tab1"
    /\ UNCHANGED <<state_vars, widget_vars, local_vars, st_error, run_status,
                   index_built, llm_requests>>

\* line 39 false
SidebarSkip ==
    /\ pc = "sidebar"
    /\ ~SidebarGuard(uploaded_file, openai_api_key)
    /\ pc' = "tab1"
    /\ UNCHANGED <<state_vars, widget_vars, local_vars, file_hash, st_error, run_status,
                   world_vars, llm_requests>>

\* lines 54-55
LoadOk ==
    /\ pc = "load"
    /\ documents' = temp_file
    /\ pc' = "split"
    /\ UNCHANGED <<state_vars, widget_vars, splits, vectorstore, file_hash, st_error,
                   run_status, world_vars, llm_requests>>

LoadFail ==
    /\ pc = "load"
    /\ Raise("ingest_failed")
    /\ UNCHANGED <<state_vars, widget_vars, file_hash, st_error, world_vars,
                   llm_requests>>

\* lines 56-60
SplitOk ==
    /\ pc = "split"
    /\ splits' = documents
    /\ pc' = "embed"
    /\ UNCHANGED <<state_vars, widget_vars, documents, vectorstore, file_hash, st_error,
                   run_status, world_vars, llm_requests>>

SplitFail ==
    /\ pc = "split"
    /\ Raise("ingest_failed")
    /\ UNCHANGED <<state_vars, widget_vars, file_hash, st_error, world_vars,
                   llm_requests>>

\* lines 63-64: the embedder is invoked on the splits
EmbedOk ==
    /\ pc = "embed"
    /\ index_built' = index_built \cup {MD5(splits)}
    /\ vectorstore' = splits
    /\ pc' = "chain"
    /\ UNCHANGED <<state_vars, widget_vars, documents, splits, file_hash, st_error,
                   run_status, temp_file, env_key, llm_requests>>

EmbedFail ==
    /\ pc = "embed"
    /\ Raise("ingest_failed")
    /\ UNCHANGED <<state_vars, widget_vars, file_hash, st_error, temp_file, env_key,
                   index_built, llm_requests>>

\* lines 67-71
ChainOk ==
    /\ pc = "chain"
    /\ coach' = vectorstore
    /\ pc' = "mark_done"
    /\ UNCHANGED <<chat_history, embeddings_done, training_plan, training_principles,
                   widget_vars, local_vars, file_hash, st_error, run_status,
                   world_vars, llm_requests>>

ChainFail ==
    /\ pc = "chain"
    /\ coach' = CoachAfterChainFailure(coach, vectorstore)
    /\ Raise("ingest_failed")
    /\ UNCHANGED <<chat_history, embeddings_done, training_plan, training_principles,
                   widget_vars, file_hash, st_error, world_vars, llm_requests>>

\* lines 73-74
MarkDone ==
    /\ pc = "mark_done"
    /\ embeddings_done' = TRUE
    /\ pc' = "tab1"
    /\ documents' = NoDoc
    /\ splits' = NoDoc
    /\ vectorstore' = NoDoc
    /\ UNCHANGED <<chat_history, coach, training_plan, training_principles,
                   widget_vars, file_hash, st_error, run_status,
                   world_vars, llm_requests>>

\* ------------------------------------------ Training Plan tab, lines 80-185
\* The coach is called as coach({"question": ..., "chat_history": ...}); the
\* request is recorded with its outcome.
CoachAnswers(q, histArg, a, next) ==
    /\ Len(llm_requests) < MaxAsks
    /\ llm_requests' = Append(llm_requests, Request(q, histArg, a))
    /\ chat_history' = HistoryAfterAnswer(chat_history, q, a)
    /\ pc' = next
    /\ UNCHANGED <<coach, embeddings_done, training_principles, widget_vars, local_vars,
                   file_hash, st_error, world_vars>>

CoachRaises(q, histArg) ==
    /\ Len(llm_requests) < MaxAsks
    /\ llm_requests' = Append(llm_requests, Request(q, histArg, FAILED))
    /\ chat_history' = HistoryAfterFailure(chat_history, q)
    /\ Raise("ask_failed")
    /\ UNCHANGED <<coach, embeddings_done, training_plan, training_principles,
                   widget_vars, file_hash, st_error, world_vars>>

\* line 122 false: the button was not clicked
Tab1Skip ==
    /\ pc = "tab1"
    /\ clicked # "plan"
    /\ pc' = "tab2"
    /\ UNCHANGED <<state_vars, widget_vars, local_vars, file_hash, st_error, run_status,
                   world_vars, llm_requests>>

\* lines 122-123
PlanStart ==
    /\ pc = "tab1"
    /\ clicked = "plan"
    /\ coach # NoDoc
    /\ pc' = "principles"
    /\ UNCHANGED <<state_vars, widget_vars, local_vars, file_hash, st_error, run_status,
                   world_vars, llm_requests>>

\* lines 184-185
PlanNoCoach ==
    /\ pc = "tab1"
    /\ clicked = "plan"
    /\ coach = NoDoc
    /\ st_error' = TRUE
    /\ pc' = "tab2"
    /\ UNCHANGED <<state_vars, widget_vars, local_vars, file_hash, run_status,
                   world_vars, llm_requests>>

\* lines 134-136
PrinciplesOk ==
    /\ pc = "principles"
    /\ \E a \in Answers :
          CoachAnswers("principles", PlanHistoryArg(chat_history), a, "plan")
    /\ UNCHANGED <<training_plan, run_status>>

PrinciplesFail ==
    /\ pc = "principles"
    /\ CoachRaises("principles", PlanHistoryArg(chat_history))

\* lines 169-183
PlanOk ==
    /\ pc = "plan"
    /\ \E a \in Answers :
          /\ CoachAnswers("plan", PlanHistoryArg(chat_history), a, "tab2")
          /\ training_plan' = a
    /\ UNCHANGED run_status

PlanFail ==
    /\ pc = "plan"
    /\ CoachRaises("plan", PlanHistoryArg(chat_history))

\* -------------------------------------------- Log Runs tab, lines 188-210
\* lines 196-197 false: not clicked, or clicked with no coach (no else branch)
Tab2Skip ==
    /\ pc = "tab2"
    /\ ~(clicked = "log" /\ coach # NoDoc)
    /\ pc' = "tab3"
    /\ UNCHANGED <<state_vars, widget_vars, local_vars, file_hash, st_error, run_status,
                   world_vars, llm_requests>>

LogStart ==
    /\ pc = "tab2"
    /\ clicked = "log"
    /\ coach # NoDoc
    /\ pc' = "log"
    /\ UNCHANGED <<state_vars, widget_vars, local_vars, file_hash, st_error, run_status,
                   world_vars, llm_requests>>

\* lines 209-210
LogOk ==
    /\ pc = "log"
    /\ \E a \in Answers : CoachAnswers("log", TabHistoryArg(chat_history), a, "tab3")
    /\ UNCHANGED <<training_plan, run_status>>

LogFail ==
    /\ pc = "log"
    /\ CoachRaises("log", TabHistoryArg(chat_history))

\* ------------------------------------------ Coach Chat tab, lines 213-219
\* line 217 false: the script ends
Tab3Skip ==
    /\ pc = "tab3"
    /\ ~(question # "" /\ coach # NoDoc)
    /\ pc' = "idle"
    /\ run_status' = "completed"
    /\ UNCHANGED <<state_vars, widget_vars, local_vars, file_hash, st_error,
                   world_vars, llm_requests>>

ChatStart ==
    /\ pc = "tab3"
    /\ question # ""
    /\ coach # NoDoc
    /\ pc' = "chat"
    /\ UNCHANGED <<state_vars, widget_vars, local_vars, file_hash, st_error, run_status,
                   world_vars, llm_requests>>

\* lines 218-219, then the script ends
ChatOk ==
    /\ pc = "chat"
    /\ \E a \in Answers : CoachAnswers("chat", TabHistoryArg(chat_history), a, "idle")
    /\ run_status' = "completed"
    /\ UNCHANGED training_plan

ChatFail ==
    /\ pc = "chat"
    /\ CoachRaises("chat", TabHistoryArg(chat_history))

\* ------------------------------------------------------------------ Next
Next ==
    \/ SetApiKey \/ UploadFile \/ TypeQuestion \/ EditForm
    \/ ClickGeneratePlan \/ ClickLogRun \/ NewSession
    \/ SidebarSetup \/ SidebarSkip
    \/ LoadOk \/ LoadFail \/ SplitOk \/ SplitFail
    \/ EmbedOk \/ EmbedFail \/ ChainOk \/ ChainFail \/ MarkDone
    \/ Tab1Skip \/ PlanStart \/ PlanNoCoach
    \/ PrinciplesOk \/ PrinciplesFail \/ PlanOk \/ PlanFail
    \/ Tab2Skip \/ LogStart \/ LogOk \/ LogFail
    \/ Tab3Skip \/ ChatStart \/ ChatOk \/ ChatFail

Spec == Init /\ [][Next]_vars

TypeOK ==
    /\ coach \in Docs \cup {NoDoc}
    /\ embeddings_done \in BOOLEAN
    /\ training_plan \in Answers \cup {NoDoc}
    /\ training_principles = NoDoc
    /\ openai_api_key \in Keys
    /\ uploaded_file \in Docs \cup {NoDoc}
    /\ question \in QuestionTexts
    /\ clicked \in {"none", "plan", "log"}
    /\ pc \in {"idle", "sidebar", "load", "split", "embed", "chain", "mark_done",
               "tab1", "principles", "plan", "tab2", "log", "tab3", "chat"}
    /\ run_status \in {"none", "running", "completed", "ingest_failed", "ask_failed",
                      "new_session"}
    /\ temp_file \in Docs \cup {NoDoc}
    /\ env_key \in Keys
    /\ index_built \subseteq {MD5(d) : d \in Docs}
    /\ Len(llm_requests) <= MaxAsks

\* ---------------------------------------------------------------- claims
IngestPcs == {"load", "split", "embed", "chain", "mark_done"}
AskPcs == {"principles", "plan", "log", "chat"}
IsTabQuestion(r) == r.question \in {"log", "chat"}

\* C1: once an index has been built for a content hash, the embedder is not
\* invoked again for that hash: the script never stands at lines 63-64 with
\* splits of a document whose hash is already indexed.
C1_NoSecondEmbedding ==
    pc = "embed" => MD5(splits) \notin index_built

\* C2: at the end of every rerun the active coach is the chain built from the
\* document whose hash was computed last (file_hash).
C2_CoachMatchesLatestHash ==
    (pc = "idle" /\ coach # NoDoc) => MD5(coach) = file_hash

\* C3: after N answered run-log and coach-chat requests of a session,
\* chat_history holds their N (question, answer) pairs in call order.
C3_TurnOrdering ==
    pc = "idle" => chat_history = Turns(SelectSeq(llm_requests, IsTabQuestion))

\* C4: a coach call that raises leaves chat_history exactly as it was.
C4_FailureIsolation ==
    [][(pc \in AskPcs /\ run_status' = "ask_failed") => chat_history' = chat_history]_vars

\* C4 witness: a coach call raised after an earlier request of the session
\* had been answered.
C4_Witness ==
    /\ pc = "idle"
    /\ run_status = "ask_failed"
    /\ Len(llm_requests) = 2
    /\ llm_requests[1].answer # FAILED
    /\ llm_requests[2].answer = FAILED

\* C5: after an ingestion that failed at any step, coach is still None and
\* embeddings_done still False, so the gate of line 51 is open for the next
\* rerun.
C5_NoPartialSession ==
    run_status = "ingest_failed" =>
        /\ coach = NoDoc
        /\ embeddings_done = FALSE
        /\ NeedsProcessing(embeddings_done)

\* C5 witness: the ingestion failed at chain construction, after the index of
\* the uploaded document had been built.
C5_Witness ==
    /\ pc = "idle"
    /\ run_status = "ingest_failed"
    /\ uploaded_file # NoDoc
    /\ MD5(uploaded_file) \in index_built
    /\ coach = NoDoc

\* C6: when a rerun has ended, no temporary file remains on disk.
C6_TempFileRemoved ==
    pc = "idle" => temp_file = NoDoc

\* C7: a rerun that asked (plan button, log button or chat question) while no
\* coach was active has shown the "set up your coach first" error.
C7_NoCoachReportsError ==
    (/\ pc = "idle"
     /\ run_status = "completed"
     /\ coach = NoDoc
     /\ (clicked \in {"plan", "log"} \/ question # ""))
        => st_error

\* C8: every request passes as chat_history the turns the session had
\* accumulated when the call was made.
C8_FullHistorySupplied ==
    \A i \in 1..Len(llm_requests) :
        llm_requests[i].chat_history = Turns(SubSeq(llm_requests, 1, i - 1))

\* C9: once the session is activated, no ask and no later rerun of the session
\* changes coach or embeddings_done; a coach call changes neither of them, nor
\* training_principles, nor the set of built indexes.
C9_AsksNeverMutateIndex ==
    [][/\ (coach # NoDoc /\ pc # "mark_done" /\ run_status' # "new_session")
            => (coach' = coach /\ embeddings_done' = embeddings_done)
       /\ pc \in AskPcs
            => UNCHANGED <<coach, embeddings_done, training_principles, index_built>>]_vars

\* C9 witness: with a coach built from one document, a later rerun with a
\* different document and a key has completed after an answered request.
C9_Witness ==
    /\ pc = "idle"
    /\ run_status = "completed"
    /\ coach # NoDoc
    /\ uploaded_file # NoDoc
    /\ openai_api_key # ""
    /\ uploaded_file # coach
    /\ temp_file = uploaded_file
    /\ Len(llm_requests) > 0
    /\ llm_requests[Len(llm_requests)].answer # FAILED

\* C10: at the end of a rerun embeddings_done holds exactly when coach is set;
\* the ingestion steps run only with a file and a non-empty key; while one of
\* them is missing, a rerun of the session changes neither coach nor
\* embeddings_done.
C10_DoneIffCoach ==
    [][/\ pc' = "idle" => (embeddings_done' <=> coach' # NoDoc)
       /\ pc' \in IngestPcs => (uploaded_file' # NoDoc /\ openai_api_key' # "")
       /\ ((uploaded_file = NoDoc \/ openai_api_key = "") /\ run_status' # "new_session")
            => (coach' = coach /\ embeddings_done' = embeddings_done)]_vars

\* C10 witness: a rerun has ended with the index built and the flag set.
C10_Witness ==
    /\ pc = "idle"
    /\ run_status = "completed"
    /\ embeddings_done
    /\ coach # NoDoc

====
